---- MODULE Spec2Model ----
(***************************************************************************)
(* Model of the custom-API configuration code of comfy_api_nodes:          *)
(*   custom_api_config.py       the configuration store (CustomAPIConfig)  *)
(*   custom_api_helpers.py      the endpoint resolver                      *)
(*   apply_custom_api_to_node.py  the source annotator                     *)
(*                                                                         *)
(* Representation of Python values.                                        *)
(*   - A str that the code only stores, compares and tests for truth (a    *)
(*     URL, a key) is a sequence of tokens; "" is <<>>.  None is the       *)
(*     one-token sequence NoneStr, whose token occurs in no real string.   *)
(*   - A provider name or a path segment is a TLA+ string (one word);      *)
(*     Lower and Upper map the words of the model as str.lower/str.upper   *)
(*     do.  None is the word NoneWord.                                     *)
(*   - A path is the sequence of its tokens, a token being "/" or a word;  *)
(*     two words are never adjacent (they would be one word).              *)
(*   - A dict is a function whose DOMAIN is the set of its keys.           *)
(***************************************************************************)
EXTENDS Integers, Sequences, FiniteSets, TLC

VARIABLES
    env,        \* os.environ: environment variable name -> value
    file,       \* the JSON configuration file on disk
    config,     \* CustomAPIConfig._config of the live store
    last,       \* the last operation performed on the store, with its arguments
    call,       \* the last resolver call: function, arguments, result
    content,    \* the annotator's file text, as the list of its lines
    annot       \* the annotator's run record

vars == <<env, file, config, last, call, content, annot>>

----------------------------------------------------------------------------
(* Bounds of the model.                                                     *)

MaxEnvVars == 2      \* environment variables set at once (SpecLoad)
MaxFileFields == 2   \* fields held by the JSON file, over all its entries (SpecLoad)
MaxOps == 3          \* store operations after the first construction (Spec)
MaxPathLen == 6      \* tokens of a request path (SpecResolver)
MaxKeyLen == 3       \* tokens of a stored API key (SpecResolver)
MaxLines == 3        \* lines of the file given to the annotator (SpecAnnotator)
MaxRuns == 2         \* runs of the annotator on the same file (SpecAnnotator)

----------------------------------------------------------------------------
(* Python values.                                                           *)

NoneStr == <<"<None>">>
NoneWord == "<None>"
EmptyStr == <<>>

\* bool(s) of an Optional[str]
Truthy(s) == s # NoneStr /\ s # EmptyStr

\* bool(w) of an Optional[str] held as a word
TruthyWord(w) == w # NoneWord /\ w # ""

\* The empty dict.
EmptyDict == [k \in {} |-> EmptyStr]

\* d with d[k] = v set (insert or overwrite).
DictSet(d, k, v) == [x \in DOMAIN d \cup {k} |-> IF x = k THEN v ELSE d[x]]

\* str.lower() on the words of the model.
Lower(w) ==
    CASE w = "OpenAI" -> "openai"
      [] w = "RUNWAY" -> "runway"
      [] w = "Proxy" -> "proxy"
      [] OTHER -> w

\* str.upper() on the provider names of the model.
Upper(w) ==
    CASE w = "openai" -> "OPENAI"
      [] w = "OpenAI" -> "OPENAI"
      [] w = "runway" -> "RUNWAY"
      [] w = "newprovider" -> "NEWPROVIDER"
      [] OTHER -> w

----------------------------------------------------------------------------
(* custom_api_config.py                                                     *)

\* CustomAPIConfig.PROVIDERS, cut down to two of its members (in list order).
PROVIDERS == <<"openai", "runway">>

\* Provider keys of the model: the two listed ones and one that is not listed.
ModelKeys == {"openai", "runway", "newprovider"}

Fields == {"base_url", "api_key"}

\* f"COMFY_API_{provider.upper()}_BASE_URL", f"COMFY_API_{provider.upper()}_API_KEY"
EnvVarBase(provider) == <<"COMFY_API", Upper(provider), "BASE_URL">>
EnvVarKey(provider) == <<"COMFY_API", Upper(provider), "API_KEY">>

\* json.dump(self._config, f): the object's members in a fixed order, each
\* member a pair <<key, members of the inner object>>.
KeyOrder == <<"openai", "runway", "newprovider">>
FieldOrder == <<"base_url", "api_key">>

RECURSIVE DumpMembers(_, _, _)
DumpMembers(d, order, i) ==
    IF i > Len(order) THEN <<>>
    ELSE IF order[i] \in DOMAIN d
         THEN <<<<order[i], d[order[i]]>>>> \o DumpMembers(d, order, i + 1)
         ELSE DumpMembers(d, order, i + 1)

RECURSIVE DumpEntries(_, _)
DumpEntries(cfg, i) ==
    IF i > Len(KeyOrder) THEN <<>>
    ELSE IF KeyOrder[i] \in DOMAIN cfg
         THEN <<<<KeyOrder[i], DumpMembers(cfg[KeyOrder[i]], FieldOrder, 1)>>>>
              \o DumpEntries(cfg, i + 1)
         ELSE DumpEntries(cfg, i + 1)

\* A faulty variant of JsonDump: entries that hold no field are left out of the file.
RECURSIVE DumpEntries_SkipEmpty(_, _)
DumpEntries_SkipEmpty(cfg, i) ==
    IF i > Len(KeyOrder) THEN <<>>
    ELSE IF KeyOrder[i] \in DOMAIN cfg /\ DOMAIN cfg[KeyOrder[i]] # {}
         THEN <<<<KeyOrder[i], DumpMembers(cfg[KeyOrder[i]], FieldOrder, 1)>>>>
              \o DumpEntries_SkipEmpty(cfg, i + 1)
         ELSE DumpEntries_SkipEmpty(cfg, i + 1)

JsonDump_SkipEmpty(cfg) == DumpEntries_SkipEmpty(cfg, 1)

JsonDump(cfg) == DumpEntries(cfg, 1)

\* json.load(f): members are read in order into a dict (a later member of the
\* same name replaces an earlier one).
RECURSIVE LoadMembers(_, _)
LoadMembers(members, i) ==
    IF i = 0 THEN EmptyDict
    ELSE DictSet(LoadMembers(members, i - 1), members[i][1], members[i][2])

RECURSIVE LoadEntries(_, _)
LoadEntries(text, i) ==
    IF i = 0 THEN EmptyDict
    ELSE DictSet(LoadEntries(text, i - 1), text[i][1],
                 LoadMembers(text[i][2], Len(text[i][2])))

JsonLoad(text) == LoadEntries(text, Len(text))

\* The file states: no file, a file that is not JSON, a file holding JSON text.
FileAbsent == [kind |-> "absent", text |-> <<>>]
FileMalformed == [kind |-> "malformed", text |-> <<>>]
FileJson(text) == [kind |-> "json", text |-> text]

\* _load_config, first part: the mapping read from the file; {} when the file
\* does not exist or json.load raises.
LoadFromFile(f) == IF f.kind = "json" THEN JsonLoad(f.text) ELSE EmptyDict

\* A faulty variant of EnvOverrideOne: an environment value fills a field only when the
\* file gave none (dict.setdefault in place of the assignment).
EnvOverrideOne_FileWins(cfg, e, provider) ==
    LET hasBase == EnvVarBase(provider) \in DOMAIN e
        hasKey == EnvVarKey(provider) \in DOMAIN e
    IN  IF hasBase \/ hasKey
        THEN LET c1 == IF provider \notin DOMAIN cfg
                       THEN DictSet(cfg, provider, EmptyDict)
                       ELSE cfg
                 c2 == IF hasBase /\ "base_url" \notin DOMAIN c1[provider]
                       THEN DictSet(c1, provider,
                                DictSet(c1[provider], "base_url", e[EnvVarBase(provider)]))
                       ELSE c1
                 c3 == IF hasKey /\ "api_key" \notin DOMAIN c2[provider]
                       THEN DictSet(c2, provider,
                                DictSet(c2[provider], "api_key", e[EnvVarKey(provider)]))
                       ELSE c2
             IN  c3
        ELSE cfg

\* _load_config, body of the loop over PROVIDERS for one provider.
EnvOverrideOne(cfg, e, provider) ==
    LET hasBase == EnvVarBase(provider) \in DOMAIN e
        hasKey == EnvVarKey(provider) \in DOMAIN e
    IN  IF hasBase \/ hasKey
        THEN LET c1 == IF provider \notin DOMAIN cfg
                       THEN DictSet(cfg, provider, EmptyDict)
                       ELSE cfg
                 c2 == IF hasBase
                       THEN DictSet(c1, provider,
                                DictSet(c1[provider], "base_url", e[EnvVarBase(provider)]))
                       ELSE c1
                 c3 == IF hasKey
                       THEN DictSet(c2, provider,
                                DictSet(c2[provider], "api_key", e[EnvVarKey(provider)]))
                       ELSE c2
             IN  c3
        ELSE cfg

RECURSIVE EnvOverride(_, _, _)
EnvOverride(cfg, e, i) ==
    IF i = 0 THEN cfg
    ELSE EnvOverrideOne(EnvOverride(cfg, e, i - 1), e, PROVIDERS[i])

\* CustomAPIConfig.__init__ / _load_config: the mapping of a fresh store.
LoadConfig(f, e) == EnvOverride(LoadFromFile(f), e, Len(PROVIDERS))

\* CustomAPIConfig.get_base_url
get_base_url(cfg, provider, default) ==
    LET p == Lower(provider)
    IN  IF p \in DOMAIN cfg /\ "base_url" \in DOMAIN cfg[p]
        THEN cfg[p]["base_url"]
        ELSE default

\* CustomAPIConfig.get_api_key
get_api_key(cfg, provider) ==
    LET p == Lower(provider)
    IN  IF p \in DOMAIN cfg /\ "api_key" \in DOMAIN cfg[p]
        THEN cfg[p]["api_key"]
        ELSE NoneStr

\* A faulty variant of set_provider_config: "is not None" in place of the truth tests.
set_provider_config_NotNone(cfg, provider, base_url, api_key) ==
    LET p == Lower(provider)
        c1 == IF p \notin DOMAIN cfg THEN DictSet(cfg, p, EmptyDict) ELSE cfg
        c2 == IF base_url # NoneStr
              THEN DictSet(c1, p, DictSet(c1[p], "base_url", base_url))
              ELSE c1
        c3 == IF api_key # NoneStr
              THEN DictSet(c2, p, DictSet(c2[p], "api_key", api_key))
              ELSE c2
    IN  c3

\* CustomAPIConfig.set_provider_config: the mapping after the call.
set_provider_config(cfg, provider, base_url, api_key) ==
    LET p == Lower(provider)
        c1 == IF p \notin DOMAIN cfg THEN DictSet(cfg, p, EmptyDict) ELSE cfg
        c2 == IF Truthy(base_url)
              THEN DictSet(c1, p, DictSet(c1[p], "base_url", base_url))
              ELSE c1
        c3 == IF Truthy(api_key)
              THEN DictSet(c2, p, DictSet(c2[p], "api_key", api_key))
              ELSE c2
    IN  c3

\* CustomAPIConfig.is_custom_configured: bool(dict) is "the dict has a key".
is_custom_configured(cfg, provider) ==
    LET p == Lower(provider)
    IN  p \in DOMAIN cfg /\ DOMAIN cfg[p] # {}

----------------------------------------------------------------------------
(* Inputs of the store: environments and configuration files.               *)

EnvValues == {EmptyStr, <<"https://env.example">>}
FileValues == {EmptyStr, <<"https://file.example">>}

EnvNamesOf(keys) == {EnvVarBase(p) : p \in keys} \cup {EnvVarKey(p) : p \in keys}

\* The environments that set at most n of the variables of the given providers.
EnvsOver(keys, n) ==
    UNION {[D -> EnvValues] : D \in {X \in SUBSET EnvNamesOf(keys) : Cardinality(X) <= n}}

EntryDicts == UNION {[D -> FileValues] : D \in SUBSET Fields}

RECURSIVE FieldCount(_, _)
FieldCount(m, i) ==
    IF i = 0 THEN 0
    ELSE FieldCount(m, i - 1)
         + (IF KeyOrder[i] \in DOMAIN m THEN Cardinality(DOMAIN m[KeyOrder[i]]) ELSE 0)

\* The files: absent, malformed, or the JSON text of a mapping over the given
\* providers that holds at most n fields.
FilesOver(keys, n) ==
    {FileAbsent, FileMalformed} \cup
    {FileJson(JsonDump(m)) :
        m \in {x \in UNION {[K -> EntryDicts] : K \in SUBSET keys} :
                  FieldCount(x, Len(KeyOrder)) <= n}}

NoCall == [fn |-> "none"]
NoAnnot == [runs |-> 0]
NoContent == <<>>

Op(op, ok, from, provider, base_url, api_key, n) ==
    [op |-> op, ok |-> ok, from |-> from, provider |-> provider,
     base_url |-> base_url, api_key |-> api_key, n |-> n]

\* What the next operation records as the one before it.
OpTag(l) == IF l.op = "save" THEN (IF l.ok THEN "save_ok" ELSE "save_failed") ELSE l.op

----------------------------------------------------------------------------
(* SpecLoad: the construction of a store, CustomAPIConfig.__init__, from    *)
(* every file and environment of the bounds.                                *)

\* __init__ up to the call of _load_config: self._config = {}.
InitLoad ==
    /\ env \in EnvsOver(ModelKeys, MaxEnvVars)
    /\ file \in FilesOver(ModelKeys, MaxFileFields)
    /\ config = EmptyDict
    /\ last = Op("new", TRUE, "start", NoneWord, NoneStr, NoneStr, 0)
    /\ call = NoCall
    /\ content = NoContent
    /\ annot = NoAnnot

\* self._load_config()
LoadStep ==
    /\ last.op = "new"
    /\ config' = LoadConfig(file, env)
    /\ last' = Op("construct", TRUE, "new", NoneWord, NoneStr, NoneStr, 0)
    /\ UNCHANGED <<env, file, call, content, annot>>

NextLoad == LoadStep

SpecLoad == InitLoad /\ [][NextLoad]_vars

----------------------------------------------------------------------------
(* Spec: a constructed store under set_provider_config, save_config and the *)
(* construction of a fresh store from the same file and environment.        *)

\* The provider whose file entry and environment variables vary in Spec.
OpsKeys == {PROVIDERS[1]}

\* Arguments of set_provider_config in the model.
SetProviders == {"OpenAI", "newprovider"}
SetValues == {NoneStr, EmptyStr, <<"https://set.example">>}

Init ==
    /\ env \in EnvsOver(OpsKeys, Cardinality(EnvNamesOf(OpsKeys)))
    /\ file \in FilesOver(OpsKeys, Cardinality(Fields))
    /\ config = LoadConfig(file, env)
    /\ last = Op("construct", TRUE, "start", NoneWord, NoneStr, NoneStr, 0)
    /\ call = NoCall
    /\ content = NoContent
    /\ annot = NoAnnot

\* CustomAPIConfig(config_file): a fresh store from the same file and environment.
Construct ==
    /\ last.n < MaxOps
    /\ config' = LoadConfig(file, env)
    /\ last' = Op("construct", TRUE, OpTag(last), NoneWord, NoneStr, NoneStr, last.n + 1)
    /\ UNCHANGED <<env, file, call, content, annot>>

\* store.set_provider_config(provider, base_url, api_key)
SetProviderConfig ==
    /\ last.n < MaxOps
    /\ \E provider \in SetProviders, base_url \in SetValues, api_key \in SetValues :
          /\ config' = set_provider_config(config, provider, base_url, api_key)
          /\ last' = Op("set", TRUE, OpTag(last), provider, base_url, api_key, last.n + 1)
    /\ UNCHANGED <<env, file, call, content, annot>>

\* store.save_config(), the write succeeds: the file holds json.dump(_config).
SaveConfigOk ==
    /\ last.n < MaxOps
    /\ file' = FileJson(JsonDump(config))
    /\ last' = Op("save", TRUE, OpTag(last), NoneWord, NoneStr, NoneStr, last.n + 1)
    /\ UNCHANGED <<env, config, call, content, annot>>

\* store.save_config(), the write raises: open() fails and the file is as it
\* was, or the write fails part-way and the file is truncated. The exception is
\* swallowed and the mapping in memory is untouched.
SaveConfigFails ==
    /\ last.n < MaxOps
    /\ file' \in {file, FileMalformed}
    /\ last' = Op("save", FALSE, OpTag(last), NoneWord, NoneStr, NoneStr, last.n + 1)
    /\ UNCHANGED <<env, config, call, content, annot>>

Next == Construct \/ SetProviderConfig \/ SaveConfigOk \/ SaveConfigFails

Spec == Init /\ [][Next]_vars

----------------------------------------------------------------------------
(* custom_api_helpers.py                                                    *)

Slash == "/"
NonePath == <<"<None>">>

\* bool(path) of an Optional[str] path
TruthyPath(path) == path # NonePath /\ path # <<>>

\* path.lstrip('/')
RECURSIVE LStrip(_)
LStrip(s) == IF s # <<>> /\ Head(s) = Slash THEN LStrip(Tail(s)) ELSE s

\* s.split('/'): the list of segments, "" for an empty one; cur is the segment
\* being read.
RECURSIVE SplitFrom(_, _, _)
SplitFrom(s, i, cur) ==
    IF i > Len(s) THEN <<cur>>
    ELSE IF s[i] = Slash THEN <<cur>> \o SplitFrom(s, i + 1, "")
         ELSE SplitFrom(s, i + 1, s[i])

Split(s) == SplitFrom(s, 1, "")

\* '/'.join(parts)
RECURSIVE Join(_)
Join(parts) ==
    IF parts = <<>> THEN <<>>
    ELSE (IF Head(parts) = "" THEN <<>> ELSE <<Head(parts)>>)
         \o (IF Len(parts) > 1 THEN <<Slash>> \o Join(Tail(parts)) ELSE <<>>)

\* A faulty variant of get_provider_from_path: every path with a segment names a provider
\* (len(parts) >= 1 guards the second branch).
get_provider_from_path_OneSegment(path) ==
    LET parts == Split(LStrip(path))
    IN  IF Len(parts) >= 2 /\ parts[1] = "proxy" THEN Lower(parts[2])
        ELSE IF parts[1] # "" THEN Lower(parts[1])
        ELSE NoneWord

\* get_provider_from_path
get_provider_from_path(path) ==
    LET parts == Split(LStrip(path))
    IN  IF Len(parts) >= 2
        THEN IF parts[1] = "proxy" THEN Lower(parts[2]) ELSE Lower(parts[1])
        ELSE NoneWord

\* args.comfy_api_base, the process-wide default of the command line.
ComfyApiBase == <<"https://api.comfy.org">>

\* get_custom_api_base
get_custom_api_base(cfg, provider, default) ==
    LET custom_url == IF TruthyWord(provider)
                      THEN get_base_url(cfg, provider, NoneStr)
                      ELSE NoneStr
    IN  IF Truthy(custom_url) THEN custom_url
        ELSE IF Truthy(default) THEN default
        ELSE ComfyApiBase

\* An Optional[Dict]: None is NoneDict, a dict is a function of its keys.
NoneDict == [k \in {"<None>"} |-> EmptyStr]
TruthyDict(d) == d # NoneDict /\ DOMAIN d # {}

\* d.get(k)
DictGet(d, k) == IF k \in DOMAIN d THEN d[k] ELSE NoneStr

\* get_custom_api_key
get_custom_api_key(cfg, provider, auth_kwargs) ==
    LET custom_key == IF TruthyWord(provider) THEN get_api_key(cfg, provider) ELSE NoneStr
    IN  IF Truthy(custom_key) THEN custom_key
        ELSE IF TruthyDict(auth_kwargs)
        THEN (IF Truthy(DictGet(auth_kwargs, "comfy_api_key"))
              THEN DictGet(auth_kwargs, "comfy_api_key")
              ELSE DictGet(auth_kwargs, "auth_token"))
        ELSE NoneStr

Bearer == "Bearer "

\* custom_key.startswith('Bearer ')
StartsWithBearer(key) == key # <<>> /\ Head(key) = Bearer

\* custom_key.replace('Bearer ', ''): every occurrence is removed.
ReplaceBearer(key) == SelectSeq(key, LAMBDA t : t # Bearer)

\* The provider apply_custom_config works with: the one given, or the one
\* detected from the path when none is given and there is a path.
ResolvedProvider(provider, path) ==
    IF ~TruthyWord(provider) /\ TruthyPath(path)
    THEN get_provider_from_path(path)
    ELSE provider

\* apply_custom_config: the pair (final_api_base, final_auth_kwargs).
apply_custom_config(cfg, provider, api_base, auth_kwargs, path) ==
    LET prov == ResolvedProvider(provider, path)
        final_api_base == get_custom_api_base(cfg, prov, api_base)
        custom_key == get_custom_api_key(cfg, prov, auth_kwargs)
        copy == IF TruthyDict(auth_kwargs) THEN auth_kwargs ELSE EmptyDict
        final_auth_kwargs ==
            IF Truthy(custom_key)
            THEN IF StartsWithBearer(custom_key)
                 THEN DictSet(copy, "auth_token", ReplaceBearer(custom_key))
                 ELSE DictSet(copy, "comfy_api_key", custom_key)
            ELSE copy
    IN  [api_base |-> final_api_base, auth_kwargs |-> final_auth_kwargs]

\* A faulty variant of transform_path_for_custom_api: the provider segment is compared
\* as written (no .lower() on either side).
transform_path_for_custom_api_CaseSensitive(cfg, path, provider) ==
    LET prov == IF ~TruthyWord(provider) THEN get_provider_from_path(path) ELSE provider
        parts == Split(LStrip(path))
    IN  IF TruthyWord(prov) /\ is_custom_configured(cfg, prov)
           /\ Len(parts) >= 2 /\ parts[1] = "proxy" /\ parts[2] = prov
        THEN LET remaining == Join(SubSeq(parts, 3, Len(parts)))
             IN  IF remaining # <<>> THEN <<Slash>> \o remaining ELSE <<Slash>>
        ELSE path

\* transform_path_for_custom_api
transform_path_for_custom_api(cfg, path, provider) ==
    LET prov == IF ~TruthyWord(provider) THEN get_provider_from_path(path) ELSE provider
        parts == Split(LStrip(path))
    IN  IF TruthyWord(prov) /\ is_custom_configured(cfg, prov)
           /\ Len(parts) >= 2 /\ parts[1] = "proxy" /\ Lower(parts[2]) = Lower(prov)
        THEN LET remaining == Join(SubSeq(parts, 3, Len(parts)))
             IN  IF remaining # <<>> THEN <<Slash>> \o remaining ELSE <<Slash>>
        ELSE path

----------------------------------------------------------------------------
(* SpecResolver: one call of a resolver function on a store state.          *)

PathWords == {"proxy", "Proxy", "openai", "OpenAI", "v1"}
PathTokens == {Slash} \cup PathWords

\* The paths of at most MaxPathLen tokens; two words are never adjacent.
Paths ==
    {s \in UNION {[1..n -> PathTokens] : n \in 0..MaxPathLen} :
        \A i \in 1..(Len(s) - 1) : s[i] = Slash \/ s[i + 1] = Slash}

\* The stored API keys: the strings of at most MaxKeyLen tokens.
KeyTokens == {Bearer, "abc123"}
Keys == UNION {[1..n -> KeyTokens] : n \in 0..MaxKeyLen}

\* Store states: no entry, or an entry of openai with any of its fields.
ResolverEntries ==
    UNION {[D -> {EmptyStr}] : D \in SUBSET Fields} \cup
    {DictSet(e, "api_key", k) :
        e \in {EmptyDict, [f \in {"base_url"} |-> EmptyStr],
               [f \in {"base_url"} |-> <<"https://custom.example">>]},
        k \in Keys}  \cup
    {[f \in {"base_url"} |-> <<"https://custom.example">>]}
ResolverConfigs == {EmptyDict} \cup {[p \in {"openai"} |-> e] : e \in ResolverEntries}

\* Arguments of the calls.
ProviderArgs == {NoneWord, "", "OpenAI", "runway"}
ApiBaseArgs == {NoneStr, <<"https://default.example">>}
AuthValues == {EmptyStr, <<"old">>, <<Bearer, "tok">>}
AuthArgs ==
    {NoneDict} \cup UNION {[D -> AuthValues] : D \in SUBSET {"comfy_api_key", "auth_token"}}
    \cup {[k \in {"comfy_api_key", "extra"} |-> <<"old">>]}
ApplyPaths ==
    {NonePath, <<>>, <<Slash>>, <<Slash, "openai">>, <<Slash, "openai", Slash, "v1">>,
     <<Slash, "proxy", Slash, "OpenAI", Slash, "v1">>, <<Slash, "proxy", Slash, "v1">>}

InitResolver ==
    /\ config \in ResolverConfigs
    /\ env = EmptyDict
    /\ file = FileAbsent
    /\ last = Op("construct", TRUE, "start", NoneWord, NoneStr, NoneStr, 0)
    /\ call = NoCall
    /\ content = NoContent
    /\ annot = NoAnnot

CallGetProviderFromPath ==
    /\ call = NoCall
    /\ \E path \in Paths :
          call' = [fn |-> "get_provider_from_path", path |-> path,
                   result |-> get_provider_from_path(path)]
    /\ UNCHANGED <<env, file, config, last, content, annot>>

CallTransformPath ==
    /\ call = NoCall
    /\ \E path \in Paths, provider \in ProviderArgs :
          call' = [fn |-> "transform_path_for_custom_api", path |-> path,
                   provider |-> provider,
                   result |-> transform_path_for_custom_api(config, path, provider)]
    /\ UNCHANGED <<env, file, config, last, content, annot>>

CallApplyCustomConfig ==
    /\ call = NoCall
    /\ \E provider \in ProviderArgs, api_base \in ApiBaseArgs,
          auth_kwargs \in AuthArgs, path \in ApplyPaths :
          call' = [fn |-> "apply_custom_config", provider |-> provider,
                   api_base |-> api_base, auth_kwargs |-> auth_kwargs, path |-> path,
                   result |-> apply_custom_config(config, provider, api_base,
                                                  auth_kwargs, path)]
    /\ UNCHANGED <<env, file, config, last, content, annot>>

NextResolver == CallGetProviderFromPath \/ CallTransformPath \/ CallApplyCustomConfig

SpecResolver == InitResolver /\ [][NextResolver]_vars


----------------------------------------------------------------------------
(* Claims about the configuration store.                                    *)

\* Provider names as callers pass them: the keys of the model and spellings
\* of them in other letter case.
CallerNames == ModelKeys \cup {"OpenAI", "RUNWAY"}

\* The names among them that PROVIDERS lists (after lowercasing).
ListedNames == {p \in CallerNames : \E i \in 1..Len(PROVIDERS) : PROVIDERS[i] = Lower(p)}

Defaults == {NoneStr, <<"https://fallback">>}

\* C1: on a freshly constructed store, for every provider P of the provider
\* list whose environment variable COMFY_API_<P upper>_BASE_URL is set,
\* get_base_url(P, default) is the environment value, whatever the file holds
\* and whatever the default; likewise COMFY_API_<P upper>_API_KEY and
\* get_api_key(P).
C1_EnvWins ==
    last.op = "construct" =>
        \A p \in ListedNames :
            /\ EnvVarBase(p) \in DOMAIN env =>
                  \A d \in Defaults : get_base_url(config, p, d) = env[EnvVarBase(p)]
            /\ EnvVarKey(p) \in DOMAIN env => get_api_key(config, p) = env[EnvVarKey(p)]

\* C1 witness: a constructed store whose file gives openai a base_url and whose
\* environment gives another one.
C1_Witness ==
    /\ last.op = "construct"
    /\ file.kind = "json"
    /\ "openai" \in DOMAIN JsonLoad(file.text)
    /\ "base_url" \in DOMAIN JsonLoad(file.text)["openai"]
    /\ JsonLoad(file.text)["openai"]["base_url"] = <<"https://file.example">>
    /\ EnvVarBase("openai") \in DOMAIN env
    /\ env[EnvVarBase("openai")] = <<"https://env.example">>

\* The entry of lowercased p exists and one of its fields is truthy.
HasTruthyField(cfg, p) ==
    /\ Lower(p) \in DOMAIN cfg
    /\ \E f \in Fields : f \in DOMAIN cfg[Lower(p)] /\ Truthy(cfg[Lower(p)][f])

\* C5: in every reachable store state, is_custom_configured(P) is true iff the
\* entry of lowercased P exists and at least one of its fields base_url,
\* api_key is truthy.
C5_ConfiguredIffTruthyField ==
    \A p \in CallerNames : is_custom_configured(config, p) <=> HasTruthyField(config, p)

\* C6: when the entry of P holds base_url = "" then get_base_url(P, default)
\* is default, and when it holds api_key = "" then get_api_key(P) is None.
C6_EmptyFieldIsNoOverride ==
    last.op = "construct" =>
        \A p \in CallerNames :
            LET q == Lower(p)
            IN  /\ (q \in DOMAIN config /\ "base_url" \in DOMAIN config[q]
                       /\ config[q]["base_url"] = EmptyStr)
                      => \A d \in Defaults : get_base_url(config, p, d) = d
                /\ (q \in DOMAIN config /\ "api_key" \in DOMAIN config[q]
                       /\ config[q]["api_key"] = EmptyStr)
                      => get_api_key(config, p) = NoneStr

\* Field f of the entry of q, or "absent".
FieldOf(cfg, q, f) ==
    IF q \in DOMAIN cfg /\ f \in DOMAIN cfg[q] THEN cfg[q][f] ELSE <<"<absent>">>

\* C7: a step set_provider_config(P, base_url, api_key) leaves the entry of
\* lowercased P present, sets each field supplied with a truthy value to that
\* value, keeps each field supplied as None or "" as it was (absent stays
\* absent), and leaves the entries of all other providers as they were; so no
\* field that held a non-empty value becomes empty or absent.
C7_SetProviderConfigFrame ==
    [][last'.op = "set" =>
        LET q == Lower(last'.provider)
        IN  /\ DOMAIN config' = DOMAIN config \cup {q}
            /\ \A r \in DOMAIN config : r # q => config'[r] = config[r]
            /\ DOMAIN config'[q] \subseteq Fields \cup (IF q \in DOMAIN config
                                                        THEN DOMAIN config[q] ELSE {})
            /\ FieldOf(config', q, "base_url") =
                  (IF Truthy(last'.base_url) THEN last'.base_url
                   ELSE FieldOf(config, q, "base_url"))
            /\ FieldOf(config', q, "api_key") =
                  (IF Truthy(last'.api_key) THEN last'.api_key
                   ELSE FieldOf(config, q, "api_key"))
            /\ \A r \in DOMAIN config : \A f \in DOMAIN config[r] :
                  Truthy(config[r][f]) => Truthy(FieldOf(config', r, f))
    ]_vars

\* C7 witness: after set_provider_config("OpenAI", "", key) the entry of openai
\* still holds a non-empty base_url (the empty argument did not replace it) and
\* another provider has an entry.
C7_Witness ==
    /\ last.op = "set"
    /\ last.provider = "OpenAI"
    /\ last.base_url = EmptyStr
    /\ Truthy(last.api_key)
    /\ Truthy(FieldOf(config, "openai", "base_url"))
    /\ FieldOf(config, "openai", "base_url") # <<"https://set.example">>
    /\ "newprovider" \in DOMAIN config

\* Field f of provider q is one the environment overwrites during a load.
EnvOverwrites(e, q, f) ==
    /\ \E i \in 1..Len(PROVIDERS) : PROVIDERS[i] = q
    /\ (IF f = "base_url" THEN EnvVarBase(q) ELSE EnvVarKey(q)) \in DOMAIN e

EnvValueOf(e, q, f) == e[IF f = "base_url" THEN EnvVarBase(q) ELSE EnvVarKey(q)]

\* C8: a successful save_config() followed by the construction of a fresh
\* store from the same file gives a mapping equal to the saved one, except
\* for the fields the environment overwrites during the fresh load.
C8_SaveLoadRoundTrip ==
    [][(last.op = "save" /\ last.ok /\ last'.op = "construct") =>
        /\ DOMAIN config' =
              DOMAIN config \cup {q \in ModelKeys : \E f \in Fields : EnvOverwrites(env, q, f)}
        /\ \A q \in DOMAIN config' :
              /\ DOMAIN config'[q] =
                    (IF q \in DOMAIN config THEN DOMAIN config[q] ELSE {})
                    \cup {f \in Fields : EnvOverwrites(env, q, f)}
              /\ \A f \in DOMAIN config'[q] :
                    config'[q][f] = (IF EnvOverwrites(env, q, f)
                                     THEN EnvValueOf(env, q, f)
                                     ELSE config[q][f])
    ]_vars

\* C8 witness: a store constructed right after a successful save that
\* followed a set_provider_config, holding the entry without fields that the
\* set created, a non-empty field that went through the file, and a field the
\* environment gives.
C8_Witness ==
    /\ last.op = "construct"
    /\ last.from = "save_ok"
    /\ last.n = 3
    /\ "newprovider" \in DOMAIN config
    /\ DOMAIN config["newprovider"] = {}
    /\ Truthy(FieldOf(config, "openai", "api_key"))
    /\ ~EnvOverwrites(env, "openai", "api_key")
    /\ EnvOverwrites(env, "openai", "base_url")

----------------------------------------------------------------------------
(* Claims about the endpoint resolver.  The claims speak of the segments of *)
(* a path; they are read off the path by position, not through Split.       *)

\* The positions of the slashes of s.
SlashPositions(s) == {i \in 1..Len(s) : s[i] = Slash}

\* The position of the k-th slash of s, 0 when s has fewer.
SlashIdx(s, k) ==
    IF Cardinality(SlashPositions(s)) < k THEN 0
    ELSE CHOOSE i \in SlashPositions(s) :
             Cardinality({j \in SlashPositions(s) : j < i}) = k - 1

\* The path without its leading slashes.
Unslashed(path) ==
    LET rest == {i \in 1..Len(path) : path[i] # Slash}
    IN  IF rest = {} THEN <<>>
        ELSE SubSeq(path, CHOOSE i \in rest : \A j \in rest : i <= j, Len(path))

\* The number of segments of s: one more than its slashes.
SegmentCount(s) == Cardinality(SlashPositions(s)) + 1

\* The k-th segment of s (k <= SegmentCount(s)); "" when it is empty.
Segment(s, k) ==
    LET start == IF k = 1 THEN 1 ELSE SlashIdx(s, k - 1) + 1
    IN  IF start <= Len(s) /\ s[start] # Slash THEN s[start] ELSE ""

\* What follows the second slash of s; "" when s has no second slash.
AfterTwoSegments(s) ==
    IF SlashIdx(s, 2) = 0 THEN <<>> ELSE SubSeq(s, SlashIdx(s, 2) + 1, Len(s))

\* C2 as stated: get_provider_from_path(path) is the second segment lowercased
\* when the first segment is "proxy" and a second segment exists; otherwise
\* the first segment lowercased when the path has a segment at all, a single
\* one included; otherwise None.
C2_ProviderFromPathOriginal ==
    call.fn = "get_provider_from_path" =>
        LET s == Unslashed(call.path)
        IN  call.result =
               (IF Segment(s, 1) = "proxy" /\ SegmentCount(s) >= 2
                THEN Lower(Segment(s, 2))
                ELSE IF Segment(s, 1) # "" THEN Lower(Segment(s, 1))
                ELSE NoneWord)

\* C2 amended: get_provider_from_path(path) is the second segment lowercased
\* when the first segment is "proxy" and a second segment exists; otherwise
\* the first segment lowercased when the path has at least two segments (a
\* slash follows the first one); otherwise None, also for a path with a
\* single segment such as "/openai".
C2_ProviderFromPath ==
    call.fn = "get_provider_from_path" =>
        LET s == Unslashed(call.path)
        IN  call.result =
               (IF Segment(s, 1) = "proxy" /\ SegmentCount(s) >= 2
                THEN Lower(Segment(s, 2))
                ELSE IF SegmentCount(s) >= 2 THEN Lower(Segment(s, 1))
                ELSE NoneWord)

\* C2 witness: the path "/OpenAI" of a single segment gives None.
C2_Witness ==
    /\ call.fn = "get_provider_from_path"
    /\ call.path = <<Slash, "OpenAI">>
    /\ call.result = NoneWord

\* The provider transform_path_for_custom_api and apply_custom_config work
\* with: the one given, or the one derived from the path when none is given.
ClaimProvider(provider, path) ==
    IF TruthyWord(provider) THEN provider
    ELSE IF TruthyPath(path) THEN get_provider_from_path(path)
    ELSE provider

\* The store reports the provider as configured and the first two segments of
\* the path are "proxy" and the provider name, compared without letter case.
StripCase(cfg, path, provider) ==
    LET prov == ClaimProvider(provider, path)
        s == Unslashed(path)
    IN  /\ is_custom_configured(cfg, prov)
        /\ SegmentCount(s) >= 2
        /\ Segment(s, 1) = "proxy"
        /\ Lower(Segment(s, 2)) = Lower(prov)

\* C3 as stated: in the strip case transform_path_for_custom_api returns the
\* path without its first two segments and with exactly one leading slash
\* ("/" when nothing remains); in every other case the path unchanged.
C3_TransformPathOriginal ==
    call.fn = "transform_path_for_custom_api" =>
        call.result =
            (IF StripCase(config, call.path, call.provider)
             THEN <<Slash>> \o Unslashed(AfterTwoSegments(Unslashed(call.path)))
             ELSE call.path)

\* C3 amended: in the strip case transform_path_for_custom_api returns one
\* slash followed by what follows the first two segments and their slash,
\* kept as it is ("/" when nothing follows), so that an empty third segment
\* gives a result that begins with two slashes; in every other case the path
\* unchanged.
C3_TransformPath ==
    call.fn = "transform_path_for_custom_api" =>
        call.result =
            (IF StripCase(config, call.path, call.provider)
             THEN <<Slash>> \o AfterTwoSegments(Unslashed(call.path))
             ELSE call.path)

\* C3 witness: "/proxy/OpenAI/v1" with no provider given and openai configured
\* becomes "/v1".
C3_Witness ==
    /\ call.fn = "transform_path_for_custom_api"
    /\ call.provider = NoneWord
    /\ call.path = <<Slash, "proxy", Slash, "OpenAI", Slash, "v1">>
    /\ is_custom_configured(config, "openai")
    /\ call.result = <<Slash, "v1">>

\* The API key the store holds for the provider of an apply_custom_config
\* call; None when there is no provider or no key.
StoreKey(cfg, provider, path) ==
    LET prov == ClaimProvider(provider, path)
    IN  IF TruthyWord(prov) THEN get_api_key(cfg, prov) ELSE NoneStr

\* The caller's payload as a dict: empty when none was given.
InputPayload(auth_kwargs) == IF auth_kwargs = NoneDict THEN EmptyDict ELSE auth_kwargs

\* C4: when the store holds an api_key K for the resolved provider, the
\* returned auth payload is the input payload with one field set: auth_token
\* to K without its leading "Bearer " (the rest of K verbatim) when K begins
\* with "Bearer ", else comfy_api_key to K; every other field as in the input.
C4_OverrideKeySetsOneField ==
    call.fn = "apply_custom_config" =>
        LET K == StoreKey(config, call.provider, call.path)
        IN  Truthy(K) =>
               call.result.auth_kwargs =
                  (IF Head(K) = Bearer
                   THEN DictSet(InputPayload(call.auth_kwargs), "auth_token", Tail(K))
                   ELSE DictSet(InputPayload(call.auth_kwargs), "comfy_api_key", K))

\* C9: when the store holds no api_key override for the resolved provider, the
\* returned auth payload equals the input payload (empty when none was given).
C9_NoOverrideKeepsPayload ==
    call.fn = "apply_custom_config" =>
        (~Truthy(StoreKey(config, call.provider, call.path)) =>
            call.result.auth_kwargs = InputPayload(call.auth_kwargs))

----------------------------------------------------------------------------
(* apply_custom_api_to_node.py                                              *)
(* A text is the list of its lines (content.split('\n'), '\n'.join(lines)); *)
(* a line is its indentation, the text after it, and the provider name a    *)
(* line of the inserted block is formatted with ("" for the others).        *)

Line(indent, body, provider) == [indent |-> indent, body |-> body, provider |-> provider]

SyncCall == "operation = SynchronousOperation("
PollCall == "operation = PollingOperation("
TodoMarker == "# TODO: Apply custom API configuration"

\* 'operation = SynchronousOperation(' in line or 'operation = PollingOperation(' in line
IsOperationLine(line) == line.body \in {SyncCall, PollCall}

\* 'Apply custom API configuration' in line
HasMarker(line) == line.body = TodoMarker

\* comment_block of add_config_comments for indent_str and provider.
CommentBlock(indent, provider) ==
    << Line(indent, TodoMarker, ""),
       Line(indent, "# Uncomment and modify the following lines:", ""),
       Line(indent, "# custom_api_base, custom_auth_kwargs = apply_custom_config(", ""),
       Line(indent, "#     provider={provider},", provider),
       Line(indent, "#     auth_kwargs=kwargs,", ""),
       Line(indent, "#     path=path  # Make sure 'path' variable exists", ""),
       Line(indent, "# )", ""),
       Line(indent, "# custom_path = transform_path_for_custom_api(path, provider={provider})",
            provider),
       Line(indent, "#", ""),
       Line(indent, "# Then modify the operation to use:", ""),
       Line(indent, "#   - path=custom_path instead of path=path", ""),
       Line(indent, "#   - api_base=custom_api_base", ""),
       Line(indent, "#   - auth_kwargs=custom_auth_kwargs instead of auth_kwargs=kwargs", ""),
       Line(indent, "", "") >>

\* for j, comment_line in enumerate(comment_block): lines.insert(i + j, comment_line)
InsertBlock(lines, i, block) ==
    SubSeq(lines, 1, i - 1) \o block \o SubSeq(lines, i, Len(lines))

\* The while loop of add_config_comments from index i (1-based) on.
RECURSIVE AnnotateFrom(_, _, _, _)
AnnotateFrom(lines, i, modifications, provider) ==
    IF i > Len(lines) THEN [lines |-> lines, modifications |-> modifications]
    ELSE IF IsOperationLine(lines[i])
         THEN IF i > 1 /\ HasMarker(lines[i - 1])
              THEN AnnotateFrom(lines, i + 1, modifications, provider)
              ELSE LET block == CommentBlock(lines[i].indent, provider)
                   IN  AnnotateFrom(InsertBlock(lines, i, block), i + Len(block) + 1,
                                    modifications + 1, provider)
         ELSE AnnotateFrom(lines, i + 1, modifications, provider)

\* add_config_comments(content, provider): (new text, modifications)
add_config_comments(lines, provider) == AnnotateFrom(lines, 1, 0, provider)

----------------------------------------------------------------------------
(* SpecAnnotator: add_config_comments run again and again on a file.        *)

IndentStep == 4

FileLines ==
    {Line(0, SyncCall, ""), Line(IndentStep, PollCall, ""), Line(0, "x = 1", ""),
     Line(0, TodoMarker, ""), Line(0, "", "")}

AnnotatorProviders == {"openai", "runway"}

InitAnnotator ==
    /\ content \in UNION {[1..n -> FileLines] : n \in 1..MaxLines}
    /\ annot = [runs |-> 0, provider |-> NoneWord, previous |-> NoneWord,
                modifications |-> 0, before |-> NoContent]
    /\ env = EmptyDict
    /\ file = FileAbsent
    /\ config = EmptyDict
    /\ last = Op("new", TRUE, "start", NoneWord, NoneStr, NoneStr, 0)
    /\ call = NoCall

\* content, mod_count = add_config_comments(content, provider), written back
\* to the file.
RunAnnotator ==
    /\ annot.runs < MaxRuns
    /\ \E provider \in AnnotatorProviders :
          LET r == add_config_comments(content, provider)
          IN  /\ content' = r.lines
              /\ annot' = [runs |-> annot.runs + 1, provider |-> provider,
                           previous |-> annot.provider,
                           modifications |-> r.modifications, before |-> content]
    /\ UNCHANGED <<env, file, config, last, call>>

NextAnnotator == RunAnnotator

SpecAnnotator == InitAnnotator /\ [][NextAnnotator]_vars

\* C10: running add_config_comments on its own output, with the same
\* provider, inserts no further block: it reports 0 modifications and the
\* text is unchanged.
C10_SecondRunInsertsNothing ==
    (annot.runs >= 2 /\ annot.provider = annot.previous) =>
        /\ annot.modifications = 0
        /\ content = annot.before

====
